---- MODULE Spec2Model ----
(***************************************************************************)
(* Snailfish arithmetic of src/solutions/solution18.rs: the tree type, the *)
(* explode / split rewrites, the reduction loop of add_numbers, magnitude, *)
(* the two aggregate strategies and the parser.                            *)
(***************************************************************************)
EXTENDS Integers, Sequences, FiniteSets, TLC

VARIABLES
    left,       \* add_numbers: the left operand as passed in
    right,      \* add_numbers: the right operand as passed in
    combined,   \* add_numbers: the tree being reduced in place
    pc,         \* add_numbers: position in the while loop
    last,       \* add_numbers: the rewrite that the last step performed
    input,      \* solution18: the parsed input lines, in order
    dpc,        \* solution18: position in solution18a / solution18b
    acc,        \* solution18a: accumulator of reduce, None before the first item
    idx,        \* solution18a: position of the iterator in input
    resultA,    \* solution18a: the value returned
    leftPos,    \* solution18b: position of the outer factor of iproduct!
    rightPos,   \* solution18b: position of the inner factor of iproduct!
    best,       \* solution18b: running value of max()
    evaluated,  \* solution18b: the position pairs that passed the filter so far
    resultB,    \* solution18b: the value returned
    text,       \* parse_snailfish_number: the input line, one character per item
    parsed,     \* parse_snailfish_number: Some(number) returned, None if aborted
    ppc,        \* parse_snailfish_number: position of the caller
    shown       \* the tree whose canonical text the line is, None for other lines

addVars == <<left, right, combined, pc, last>>
driverVars == <<input, dpc, acc, idx, resultA, leftPos, rightPos, best, evaluated, resultB>>
parseVars == <<text, parsed, ppc, shown>>
vars == <<addVars, driverVars, parseVars>>

(***************************************************************************)
(* Program constants                                                       *)
(***************************************************************************)
SPLIT_LIMIT == 10
OUTER_PAIR_LIMIT == 4

(***************************************************************************)
(* Bounds of the model                                                     *)
(***************************************************************************)
\* Largest number of leaves of a freshly combined tree drawn in Init.
MaxLeaves == 7
\* Leaf values the operands are built from (both below SPLIT_LIMIT).
LeafValues == {1, 9}
\* Leaf values of the operands of the specification with fairness.
FairLeafValues == {9}
\* Largest number of input lines.
MaxInput == 3
\* Largest number of characters between the outer brackets of an input line.
MaxBody == 7
\* Largest number of leaves of a tree that is written out as a line.
MaxShownLeaves == 4
\* Largest number of leaves of the two operands together when one of them is
\* nested too deeply to be reduced.
MaxDeepLeaves == 8
\* add_numbers as one call runs at most 2^MaxLoopLog evaluations of its loop
\* condition.
MaxLoopLog == 10

(***************************************************************************)
(* enum Node { Pair(Box<Pair>), Value(u32) }  and  struct Pair             *)
(***************************************************************************)
Value(v) == [tag |-> "Value", value |-> v]
Pair(l, r) == [tag |-> "Pair", left |-> l, right |-> r]

IsValue(n) == n.tag = "Value"
IsPair(n) == n.tag = "Pair"

(***************************************************************************)
(* enum Direction, struct ExplodeCarryValue, Option<ExplodeCarryValue>,    *)
(* struct ExplodeResult.  A result also records whether the call hit the   *)
(* unreachable!() of force_as_value, in which case the process aborts.     *)
(***************************************************************************)
NoCarry == [some |-> FALSE, direction |-> "None", value |-> 0]
ExplodeCarryValue(d, v) == [some |-> TRUE, direction |-> d, value |-> v]

ExplodeResult(t, e, c, p) ==
    [tree |-> t, exploded |-> e, carry_value |-> c, panicked |-> p]

\* Variant of ForceAsValuePanics: a Pair node is read as 0 without aborting.
ForceAsValueNeverPanics(n) == FALSE

\* Node::force_as_value: the value of a Value node; a Pair node aborts.
ForceAsValuePanics(n) == ~IsValue(n)
force_as_value(n) == IF IsValue(n) THEN n.value ELSE 0

\* Variant of split: the left half rounds up instead of down.
split_rounding_up(n) ==
    LET left_val == (n.value + 1) \div 2
    IN  Pair(Value(left_val), Value(n.value - left_val))

\* Node::split: a Value v becomes the Pair (v / 2, v - v / 2).
split(n) ==
    LET left_val == n.value \div 2
    IN  Pair(Value(left_val), Value(n.value - left_val))

\* Variant of accept_carry_value: a Pair routes every carry into its left child.
RECURSIVE accept_carry_value_left_only(_, _)
accept_carry_value_left_only(n, carry) ==
    IF IsValue(n) THEN Value(n.value + carry.value)
    ELSE Pair(accept_carry_value_left_only(n.left, carry), n.right)

\* Node::accept_carry_value: a Value adds the carried amount; a Pair routes a
\* Right carry into its left child and a Left carry into its right child.
RECURSIVE accept_carry_value(_, _)
accept_carry_value(n, carry) ==
    IF IsValue(n) THEN Value(n.value + carry.value)
    ELSE IF carry.direction = "Right"
         THEN Pair(accept_carry_value(n.left, carry), n.right)
         ELSE Pair(n.left, accept_carry_value(n.right, carry))

\* Variant of ExplodeAtLimit: the two values of the exploding Pair are swapped,
\* its left value goes to the right and its right value to the left.
ExplodeAtLimitSwapped(p) ==
    IF IsPair(p.left) THEN
        IF ForceAsValuePanics(p.left.right) \/ ForceAsValuePanics(p.left.left)
        THEN ExplodeResult(p, FALSE, NoCarry, TRUE)
        ELSE ExplodeResult(
                Pair(Value(0),
                     accept_carry_value(p.right,
                        ExplodeCarryValue("Right", force_as_value(p.left.left)))),
                TRUE,
                ExplodeCarryValue("Left", force_as_value(p.left.right)),
                FALSE)
    ELSE IF IsPair(p.right) THEN
        IF ForceAsValuePanics(p.right.left) \/ ForceAsValuePanics(p.right.right)
        THEN ExplodeResult(p, FALSE, NoCarry, TRUE)
        ELSE ExplodeResult(
                Pair(accept_carry_value(p.left,
                        ExplodeCarryValue("Left", force_as_value(p.right.right))),
                     Value(0)),
                TRUE,
                ExplodeCarryValue("Right", force_as_value(p.right.left)),
                FALSE)
    ELSE ExplodeResult(p, FALSE, NoCarry, FALSE)

\* Variant of ExplodeAtLimit: the right child is looked at first.
ExplodeAtLimitRightFirst(p) ==
    IF IsPair(p.right) THEN
        IF ForceAsValuePanics(p.right.left) \/ ForceAsValuePanics(p.right.right)
        THEN ExplodeResult(p, FALSE, NoCarry, TRUE)
        ELSE ExplodeResult(
                Pair(accept_carry_value(p.left,
                        ExplodeCarryValue("Left", force_as_value(p.right.left))),
                     Value(0)),
                TRUE,
                ExplodeCarryValue("Right", force_as_value(p.right.right)),
                FALSE)
    ELSE IF IsPair(p.left) THEN
        IF ForceAsValuePanics(p.left.right) \/ ForceAsValuePanics(p.left.left)
        THEN ExplodeResult(p, FALSE, NoCarry, TRUE)
        ELSE ExplodeResult(
                Pair(Value(0),
                     accept_carry_value(p.right,
                        ExplodeCarryValue("Right", force_as_value(p.left.right)))),
                TRUE,
                ExplodeCarryValue("Left", force_as_value(p.left.left)),
                FALSE)
    ELSE ExplodeResult(p, FALSE, NoCarry, FALSE)

\* Pair::try_explode_children at the outer pair limit: the left child is looked
\* at first, then the right child; a child that is a Pair is replaced by
\* Value(0), one of its values goes to the sibling and the other is returned.
ExplodeAtLimit(p) ==
    IF IsPair(p.left) THEN
        IF ForceAsValuePanics(p.left.right) \/ ForceAsValuePanics(p.left.left)
        THEN ExplodeResult(p, FALSE, NoCarry, TRUE)
        ELSE ExplodeResult(
                Pair(Value(0),
                     accept_carry_value(p.right,
                        ExplodeCarryValue("Right", force_as_value(p.left.right)))),
                TRUE,
                ExplodeCarryValue("Left", force_as_value(p.left.left)),
                FALSE)
    ELSE IF IsPair(p.right) THEN
        IF ForceAsValuePanics(p.right.left) \/ ForceAsValuePanics(p.right.right)
        THEN ExplodeResult(p, FALSE, NoCarry, TRUE)
        ELSE ExplodeResult(
                Pair(accept_carry_value(p.left,
                        ExplodeCarryValue("Left", force_as_value(p.right.left))),
                     Value(0)),
                TRUE,
                ExplodeCarryValue("Right", force_as_value(p.right.right)),
                FALSE)
    ELSE ExplodeResult(p, FALSE, NoCarry, FALSE)

\* Variant of try_explode_children: the limit is reached one level early.
RECURSIVE try_explode_children_one_early(_, _)
try_explode_children_one_early(p, outer_pairs) ==
    IF outer_pairs + 1 >= OUTER_PAIR_LIMIT THEN ExplodeAtLimit(p)
    ELSE
        LET la == IF IsPair(p.left)
                  THEN try_explode_children_one_early(p.left, outer_pairs + 1)
                  ELSE ExplodeResult(p.left, FALSE, NoCarry, FALSE)
        IN  IF la.panicked THEN ExplodeResult(p, FALSE, NoCarry, TRUE)
            ELSE IF la.exploded THEN
                IF la.carry_value.some /\ la.carry_value.direction = "Right"
                THEN ExplodeResult(
                        Pair(la.tree, accept_carry_value(p.right, la.carry_value)),
                        TRUE, NoCarry, FALSE)
                ELSE ExplodeResult(Pair(la.tree, p.right),
                                   TRUE, la.carry_value, FALSE)
            ELSE
                LET ra == IF IsPair(p.right)
                          THEN try_explode_children_one_early(p.right, outer_pairs + 1)
                          ELSE ExplodeResult(p.right, FALSE, NoCarry, FALSE)
                IN  IF ra.panicked THEN ExplodeResult(p, FALSE, NoCarry, TRUE)
                    ELSE IF ra.exploded THEN
                        IF ra.carry_value.some /\ ra.carry_value.direction = "Left"
                        THEN ExplodeResult(
                                Pair(accept_carry_value(p.left, ra.carry_value),
                                     ra.tree),
                                TRUE, NoCarry, FALSE)
                        ELSE ExplodeResult(Pair(p.left, ra.tree),
                                           TRUE, ra.carry_value, FALSE)
                    ELSE ExplodeResult(p, FALSE, NoCarry, FALSE)

\* Variant of try_explode_children: a carry the right sibling has taken is still
\* handed to the caller.
RECURSIVE try_explode_children_carry_kept(_, _)
try_explode_children_carry_kept(p, outer_pairs) ==
    IF outer_pairs >= OUTER_PAIR_LIMIT THEN ExplodeAtLimit(p)
    ELSE
        LET la == IF IsPair(p.left)
                  THEN try_explode_children_carry_kept(p.left, outer_pairs + 1)
                  ELSE ExplodeResult(p.left, FALSE, NoCarry, FALSE)
        IN  IF la.panicked THEN ExplodeResult(p, FALSE, NoCarry, TRUE)
            ELSE IF la.exploded THEN
                IF la.carry_value.some /\ la.carry_value.direction = "Right"
                THEN ExplodeResult(
                        Pair(la.tree, accept_carry_value(p.right, la.carry_value)),
                        TRUE, la.carry_value, FALSE)
                ELSE ExplodeResult(Pair(la.tree, p.right),
                                   TRUE, la.carry_value, FALSE)
            ELSE
                LET ra == IF IsPair(p.right)
                          THEN try_explode_children_carry_kept(p.right, outer_pairs + 1)
                          ELSE ExplodeResult(p.right, FALSE, NoCarry, FALSE)
                IN  IF ra.panicked THEN ExplodeResult(p, FALSE, NoCarry, TRUE)
                    ELSE IF ra.exploded THEN
                        IF ra.carry_value.some /\ ra.carry_value.direction = "Left"
                        THEN ExplodeResult(
                                Pair(accept_carry_value(p.left, ra.carry_value),
                                     ra.tree),
                                TRUE, NoCarry, FALSE)
                        ELSE ExplodeResult(Pair(p.left, ra.tree),
                                           TRUE, ra.carry_value, FALSE)
                    ELSE ExplodeResult(p, FALSE, NoCarry, FALSE)

\* Pair::try_explode_children(&mut self, outer_pairs).
RECURSIVE try_explode_children(_, _)
try_explode_children(p, outer_pairs) ==
    IF outer_pairs >= OUTER_PAIR_LIMIT THEN ExplodeAtLimit(p)
    ELSE
        LET la == IF IsPair(p.left)
                  THEN try_explode_children(p.left, outer_pairs + 1)
                  ELSE ExplodeResult(p.left, FALSE, NoCarry, FALSE)
        IN  IF la.panicked THEN ExplodeResult(p, FALSE, NoCarry, TRUE)
            ELSE IF la.exploded THEN
                IF la.carry_value.some /\ la.carry_value.direction = "Right"
                THEN ExplodeResult(
                        Pair(la.tree, accept_carry_value(p.right, la.carry_value)),
                        TRUE, NoCarry, FALSE)
                ELSE ExplodeResult(Pair(la.tree, p.right),
                                   TRUE, la.carry_value, FALSE)
            ELSE
                LET ra == IF IsPair(p.right)
                          THEN try_explode_children(p.right, outer_pairs + 1)
                          ELSE ExplodeResult(p.right, FALSE, NoCarry, FALSE)
                IN  IF ra.panicked THEN ExplodeResult(p, FALSE, NoCarry, TRUE)
                    ELSE IF ra.exploded THEN
                        IF ra.carry_value.some /\ ra.carry_value.direction = "Left"
                        THEN ExplodeResult(
                                Pair(accept_carry_value(p.left, ra.carry_value),
                                     ra.tree),
                                TRUE, NoCarry, FALSE)
                        ELSE ExplodeResult(Pair(p.left, ra.tree),
                                           TRUE, ra.carry_value, FALSE)
                    ELSE ExplodeResult(p, FALSE, NoCarry, FALSE)

\* Result of Pair::try_split_children: the tree afterwards and the flag returned.
SplitResult(t, s) == [tree |-> t, split |-> s]

RECURSIVE try_split_children(_)

\* Variant of SplitChild: only a value above SPLIT_LIMIT is split.
SplitChildAboveLimit(child) ==
    IF IsPair(child) THEN try_split_children(child)
    ELSE IF child.value > SPLIT_LIMIT THEN SplitResult(split(child), TRUE)
    ELSE SplitResult(child, FALSE)

\* Variant of SplitChild: a large value is reported but child.split() is not
\* called.
SplitChildNotReplaced(child) ==
    IF IsPair(child) THEN try_split_children(child)
    ELSE IF child.value >= SPLIT_LIMIT THEN SplitResult(child, TRUE)
    ELSE SplitResult(child, FALSE)

\* The match of try_split_children on one child.
SplitChild(child) ==
    IF IsPair(child) THEN try_split_children(child)
    ELSE IF child.value >= SPLIT_LIMIT THEN SplitResult(split(child), TRUE)
    ELSE SplitResult(child, FALSE)

\* Pair::try_split_children(&mut self): left child, then right child, stopping
\* at the first child that reports a split.
try_split_children(p) ==
    LET ls == SplitChild(p.left)
    IN  IF ls.split THEN SplitResult(Pair(ls.tree, p.right), TRUE)
        ELSE LET rs == SplitChild(p.right)
             IN  IF rs.split THEN SplitResult(Pair(p.left, rs.tree), TRUE)
                 ELSE SplitResult(p, FALSE)

\* Variant of magnitude: the right child is weighted by 3 like the left one.
RECURSIVE magnitude_right_weight_3(_)
magnitude_right_weight_3(n) ==
    IF IsPair(n)
    THEN magnitude_right_weight_3(n.left) * 3 + magnitude_right_weight_3(n.right) * 3
    ELSE n.value

\* Variant of magnitude: the weights of the two children are exchanged.
RECURSIVE magnitude_weights_swapped(_)
magnitude_weights_swapped(n) ==
    IF IsPair(n)
    THEN magnitude_weights_swapped(n.left) * 2 + magnitude_weights_swapped(n.right) * 3
    ELSE n.value

\* impl Magnitude for Node / Pair / SnailfishNumber.
RECURSIVE magnitude(_)
magnitude(n) ==
    IF IsPair(n) THEN magnitude(n.left) * 3 + magnitude(n.right) * 2
    ELSE n.value

(***************************************************************************)
(* Tree measures used to state properties                                  *)
(***************************************************************************)
\* Number of Pairs on the longest root-to-leaf path (0 for a Value).
RECURSIVE Nesting(_)
Nesting(n) ==
    IF IsValue(n) THEN 0
    ELSE LET a == Nesting(n.left)
             b == Nesting(n.right)
         IN  1 + (IF a >= b THEN a ELSE b)

RECURSIVE MaxLeaf(_)
MaxLeaf(n) ==
    IF IsValue(n) THEN n.value
    ELSE LET a == MaxLeaf(n.left)
             b == MaxLeaf(n.right)
         IN  IF a >= b THEN a ELSE b

RECURSIVE Leaves(_)
Leaves(n) == IF IsValue(n) THEN <<n.value>> ELSE Leaves(n.left) \o Leaves(n.right)

\* A reduced number: a Pair in which no Pair is nested inside 4 Pairs and every
\* leaf is below 10.
IsReduced(t) == IsPair(t) /\ Nesting(t) <= 4 /\ MaxLeaf(t) < 10

(***************************************************************************)
(* Operands of the model                                                   *)
(***************************************************************************)
\* All trees with exactly n leaves whose leaf values are in values.
RECURSIVE TreesWithLeaves(_, _)
TreesWithLeaves(n, values) ==
    IF n = 1 THEN {Value(v) : v \in values}
    ELSE UNION {{Pair(l, r) : l \in TreesWithLeaves(k, values),
                             r \in TreesWithLeaves(n - k, values)}
                    : k \in 1..(n - 1)}

\* Reduced snailfish numbers with exactly n leaves.
ReducedNumbers(n, values) == {t \in TreesWithLeaves(n, values) : IsReduced(t)}

\* Concrete scenario 1 of the specification.
Scenario1Left ==
    Pair(Pair(Pair(Pair(Value(4), Value(3)), Value(4)), Value(4)),
         Pair(Value(7), Pair(Pair(Value(8), Value(4)), Value(9))))
Scenario1Right == Pair(Value(1), Value(1))
Scenario1Sum ==
    Pair(Pair(Pair(Pair(Value(0), Value(7)), Value(4)),
              Pair(Pair(Value(7), Value(8)), Pair(Value(6), Value(0)))),
         Pair(Value(8), Value(1)))

\* Further sums of reduced numbers whose deepest Pairs have Pair siblings.
LeafPair(a, b) == Pair(Value(a), Value(b))
Example2Left ==
    Pair(Pair(Pair(Value(0), LeafPair(4, 5)), LeafPair(0, 0)),
         Pair(Pair(LeafPair(4, 5), LeafPair(2, 6)), LeafPair(9, 5)))
Example2Right ==
    Pair(Value(7),
         Pair(Pair(LeafPair(3, 7), LeafPair(4, 3)),
              Pair(LeafPair(6, 3), LeafPair(8, 8))))
Example3Left ==
    Pair(Pair(Pair(LeafPair(9, 8), LeafPair(1, 9)), Value(9)), Value(1))
Example3Right ==
    Pair(Value(9), Pair(Value(1), Pair(LeafPair(9, 1), LeafPair(8, 9))))

ExamplePairs ==
    {<<Scenario1Left, Scenario1Right>>,
     <<Scenario1Right, Scenario1Left>>,
     <<Example2Left, Example2Right>>,
     <<Example2Right, Example2Left>>,
     <<Example3Left, Example3Right>>,
     <<Example3Right, Example3Left>>,
     <<Example3Left, Example3Left>>,
     <<Example3Right, Example3Right>>}

\* Every two reduced numbers over values whose sum has at most MaxLeaves leaves.
ReducedPairs(values) ==
    UNION {ReducedNumbers(ab[1], values) \X ReducedNumbers(ab[2], values)
              : ab \in {cd \in (2..MaxLeaves) \X (2..MaxLeaves)
                            : cd[1] + cd[2] <= MaxLeaves}}

OperandPairs == ReducedPairs(LeafValues) \cup ExamplePairs
FairOperandPairs == ReducedPairs(FairLeafValues) \cup ExamplePairs

\* The complete tree of the given depth with every leaf equal to v.
RECURSIVE CompleteTree(_, _)
CompleteTree(depth, v) ==
    IF depth = 0 THEN Value(v)
    ELSE Pair(CompleteTree(depth - 1, v), CompleteTree(depth - 1, v))

\* The complete reduced numbers: every depth that stays reduced as an operand
\* of a sum, every leaf value below SPLIT_LIMIT.
CompleteNumbers ==
    {CompleteTree(depth, v) : depth \in 1..(OUTER_PAIR_LIMIT - 1),
                              v \in 0..(SPLIT_LIMIT - 1)}

\* Sums of two complete numbers, up to the largest reduced tree there is.
CompleteOperandPairs == (CompleteNumbers \X CompleteNumbers) \cup ExamplePairs

\* Numbers that are not reduced: a Pair is nested inside 4 Pairs or more.
DeepNumbers(n, values) == {t \in TreesWithLeaves(n, values) : Nesting(t) > 4}

\* A Pair nested inside 4 Pairs that has a Pair child, behind Pairs that
\* explode first and behind a leaf that would split.
DeepBehindExplosions ==
    Pair(Pair(Pair(Pair(LeafPair(9, 9), LeafPair(9, 9)), Value(9)), Value(9)),
         Pair(Pair(Pair(Pair(Value(1), LeafPair(1, 1)), Value(1)), Value(1)),
              Value(1)))

\* Every two numbers over values with at most MaxDeepLeaves leaves together of
\* which one is nested too deeply, and sums of which one operand is.
DeepPairs(values) ==
    UNION {(DeepNumbers(ab[1], values) \X TreesWithLeaves(ab[2], values))
             \cup (TreesWithLeaves(ab[1], values) \X DeepNumbers(ab[2], values))
              : ab \in {cd \in (2..MaxDeepLeaves) \X (2..MaxDeepLeaves)
                            : cd[1] + cd[2] <= MaxDeepLeaves}}

DeepOperandPairs ==
    DeepPairs(LeafValues)
        \cup {<<DeepBehindExplosions, Scenario1Right>>,
              <<Example3Left, DeepBehindExplosions>>,
              <<DeepBehindExplosions, Example3Right>>}
        \cup ExamplePairs

(***************************************************************************)
(* add_numbers(left, right)                                                *)
(***************************************************************************)
\* Placeholder for a tree variable that holds nothing yet.
NoTree == Value(0)

\* Option<T>
None == [some |-> FALSE, value |-> 0]
Some(v) == [some |-> TRUE, value |-> v]

\* Before add_numbers is called.
Init ==
    /\ left = NoTree
    /\ right = NoTree
    /\ combined = NoTree
    /\ pc = "idle"
    /\ last = "none"
    /\ input = <<>>
    /\ dpc = "idle"
    /\ acc = None
    /\ idx = 1
    /\ resultA = None
    /\ leftPos = 1
    /\ rightPos = 1
    /\ best = None
    /\ evaluated = <<>>
    /\ resultB = None
    /\ text = <<>>
    /\ parsed = None
    /\ ppc = "idle"
    /\ shown = None

\* add_numbers is called with two operands:
\* let mut combined = SnailfishNumber(Pair { left, right })
CombineFrom(pool) ==
    /\ pc = "idle"
    /\ \E ops \in pool :
          /\ left' = ops[1]
          /\ right' = ops[2]
          /\ combined' = Pair(ops[1], ops[2])
    /\ pc' = "explode"
    /\ last' = "none"
    /\ UNCHANGED <<driverVars, parseVars>>

Combine == CombineFrom(OperandPairs)
CombineFair == CombineFrom(FairOperandPairs)

\* Variant of TryExplode: the second operand is evaluated after an explosion
\* too, as with | in place of ||.
TryExplodeThenSplit ==
    /\ pc = "explode"
    /\ LET r == try_explode_children(combined, 1)
       IN  /\ combined' = r.tree
           /\ pc' = IF r.panicked THEN "panic" ELSE "split"
           /\ last' = IF r.exploded THEN "explode" ELSE "none"
    /\ UNCHANGED <<left, right, driverVars, parseVars>>

\* The first operand of ||: combined.0.try_explode_children(1).exploded
TryExplode ==
    /\ pc = "explode"
    /\ LET r == try_explode_children(combined, 1)
       IN  /\ combined' = r.tree
           /\ pc' = IF r.panicked THEN "panic"
                    ELSE IF r.exploded THEN "explode" ELSE "split"
           /\ last' = IF r.exploded THEN "explode" ELSE "none"
    /\ UNCHANGED <<left, right, driverVars, parseVars>>

\* Variant of TrySplit: after a split the loop tries the next split at once.
TrySplitAgain ==
    /\ pc = "split"
    /\ LET s == try_split_children(combined)
       IN  /\ combined' = s.tree
           /\ pc' = IF s.split THEN "split" ELSE "done"
           /\ last' = IF s.split THEN "split" ELSE "none"
    /\ UNCHANGED <<left, right, driverVars, parseVars>>

\* The second operand of ||, evaluated only when the first was false:
\* combined.0.try_split_children(); when it is false too the loop ends.
TrySplit ==
    /\ pc = "split"
    /\ LET s == try_split_children(combined)
       IN  /\ combined' = s.tree
           /\ pc' = IF s.split THEN "explode" ELSE "done"
           /\ last' = IF s.split THEN "split" ELSE "none"
    /\ UNCHANGED <<left, right, driverVars, parseVars>>

Next == Combine \/ TryExplode \/ TrySplit

Spec == Init /\ [][Next]_vars

\* add_numbers is called with operands of which one may be unreduced.
CombineDeep == CombineFrom(DeepOperandPairs)

NextDeep == CombineDeep \/ TryExplode \/ TrySplit

SpecDeep == Init /\ [][NextDeep]_vars

\* add_numbers is called with two complete reduced numbers.
CombineComplete == CombineFrom(CompleteOperandPairs)

NextComplete == CombineComplete \/ TryExplode \/ TrySplit

SpecComplete == Init /\ [][NextComplete]_vars

\* The loop is sequential code: a step that can be taken is taken.
NextFair == CombineFair \/ TryExplode \/ TrySplit

SpecFair == Init /\ [][NextFair]_vars /\ WF_vars(NextFair)

(***************************************************************************)
(* solution18, solution18a, solution18b                                    *)
(***************************************************************************)
\* State of the while loop of add_numbers between two evaluations of its
\* condition: the tree, whether the loop is still running, whether
\* force_as_value has aborted the process.
LoopState(t, running, panicked) ==
    [tree |-> t, running |-> running, panicked |-> panicked]

\* One evaluation of the condition
\* combined.0.try_explode_children(1).exploded || combined.0.try_split_children()
LoopStep(t) ==
    LET e == try_explode_children(t, 1)
    IN  IF e.panicked THEN LoopState(t, FALSE, TRUE)
        ELSE IF e.exploded THEN LoopState(e.tree, TRUE, FALSE)
        ELSE LET s == try_split_children(t)
             IN  LoopState(s.tree, s.split, FALSE)

\* The loop run for at most 2^k evaluations of its condition.
RECURSIVE LoopRun(_, _)
LoopRun(k, st) ==
    IF ~st.running THEN st
    ELSE IF k = 0 THEN LoopStep(st.tree)
    ELSE LoopRun(k - 1, LoopRun(k - 1, st))

\* add_numbers(left, right) as one call: Some(tree) when it returns, None when
\* it does not (the process aborts, or the loop is still running after
\* 2^MaxLoopLog evaluations).
add_numbers(l, r) ==
    LET st == LoopRun(MaxLoopLog, LoopState(Pair(l, r), TRUE, FALSE))
    IN  IF st.panicked \/ st.running THEN None ELSE Some(st.tree)

\* The numbers the input lines are drawn from.
InputNumbers == {Scenario1Right, Scenario1Left, Example3Left, Example3Right}

\* All sequences over S of length at most n.
SeqsUpTo(S, n) == UNION {[1..k -> S] : k \in 0..n}

\* let input: Vec<SnailfishNumber> = read_string_lines(..).map(parse).collect()
\* followed by the call of solution18a.
ReadInput ==
    /\ dpc = "idle"
    /\ input' \in SeqsUpTo(InputNumbers, MaxInput)
    /\ dpc' = "a"
    /\ UNCHANGED <<addVars, parseVars, acc, idx, resultA, leftPos, rightPos, best, evaluated, resultB>>

\* reduce takes the first item of input.iter().cloned() as the accumulator.
FoldFirst ==
    /\ dpc = "a"
    /\ idx <= Len(input)
    /\ ~acc.some
    /\ acc' = Some(input[idx])
    /\ idx' = idx + 1
    /\ UNCHANGED <<addVars, parseVars, input, dpc, resultA, leftPos, rightPos, best, evaluated, resultB>>

\* Variant of FoldAdd: the next item is the left operand of the addition.
FoldAddSwapped ==
    /\ dpc = "a"
    /\ idx <= Len(input)
    /\ acc.some
    /\ LET sum == add_numbers(input[idx], acc.value)
       IN  IF sum.some
           THEN acc' = sum /\ idx' = idx + 1 /\ dpc' = dpc
           ELSE acc' = acc /\ idx' = idx /\ dpc' = "panic"
    /\ UNCHANGED <<addVars, parseVars, input, resultA, leftPos, rightPos, best, evaluated, resultB>>

\* Variant of FoldAdd: the sum is also written over the first item of the
\* input, as a fold over the items themselves instead of their clones would.
FoldAddInPlace ==
    /\ dpc = "a"
    /\ idx <= Len(input)
    /\ acc.some
    /\ LET sum == add_numbers(acc.value, input[idx])
       IN  IF sum.some
           THEN /\ acc' = sum /\ idx' = idx + 1 /\ dpc' = dpc
                /\ input' = [input EXCEPT ![1] = sum.value]
           ELSE /\ acc' = acc /\ idx' = idx /\ dpc' = "panic"
                /\ input' = input
    /\ UNCHANGED <<addVars, parseVars, resultA, leftPos, rightPos, best, evaluated, resultB>>

\* reduce folds the next item into the accumulator: add_numbers(acc, item).
FoldAdd ==
    /\ dpc = "a"
    /\ idx <= Len(input)
    /\ acc.some
    /\ LET sum == add_numbers(acc.value, input[idx])
       IN  IF sum.some
           THEN acc' = sum /\ idx' = idx + 1 /\ dpc' = dpc
           ELSE acc' = acc /\ idx' = idx /\ dpc' = "panic"
    /\ UNCHANGED <<addVars, parseVars, input, resultA, leftPos, rightPos, best, evaluated, resultB>>

\* The iterator is exhausted with an accumulator: .expect(..).magnitude() is
\* returned and printed, and solution18b is called.
FoldFinish ==
    /\ dpc = "a"
    /\ idx > Len(input)
    /\ acc.some
    /\ resultA' = Some(magnitude(acc.value))
    /\ dpc' = "b"
    /\ UNCHANGED <<addVars, parseVars, input, acc, idx, leftPos, rightPos, best, evaluated, resultB>>

\* Variant of FoldEmpty: an empty fold yields the magnitude 0 instead of
\* aborting.
FoldEmptyAsZero ==
    /\ dpc = "a"
    /\ idx > Len(input)
    /\ ~acc.some
    /\ resultA' = Some(0)
    /\ dpc' = "b"
    /\ UNCHANGED <<addVars, parseVars, input, acc, idx, leftPos, rightPos, best, evaluated, resultB>>

\* The iterator is exhausted without any item: reduce returns None and
\* .expect(..) aborts.
FoldEmpty ==
    /\ dpc = "a"
    /\ idx > Len(input)
    /\ ~acc.some
    /\ dpc' = "panic"
    /\ UNCHANGED <<addVars, parseVars, input, acc, idx, resultA, leftPos, rightPos, best, evaluated, resultB>>

\* iproduct!(input, input) moves on: the inner factor first, then the outer.
NextI == IF rightPos = Len(input) THEN leftPos + 1 ELSE leftPos
NextJ == IF rightPos = Len(input) THEN 1 ELSE rightPos + 1

\* Variant of SamePlace: two items are the same when their values are equal.
SameValue == input[leftPos] = input[rightPos]

\* std::ptr::eq(*left, *right) on two references into the same slice.
SamePlace == leftPos = rightPos

\* The filter drops the item: both references point to the same place.
PairSkip ==
    /\ dpc = "b"
    /\ leftPos <= Len(input)
    /\ SamePlace
    /\ leftPos' = NextI
    /\ rightPos' = NextJ
    /\ UNCHANGED <<addVars, parseVars, input, dpc, acc, idx, resultA, best, evaluated, resultB>>

\* The item passes the filter: the magnitude of the sum of the two clones is
\* folded into max().
PairEvaluate ==
    /\ dpc = "b"
    /\ leftPos <= Len(input)
    /\ ~SamePlace
    /\ LET sum == add_numbers(input[leftPos], input[rightPos])
       IN  IF sum.some
           THEN /\ best' = IF best.some /\ best.value > magnitude(sum.value)
                           THEN best ELSE Some(magnitude(sum.value))
                /\ evaluated' = Append(evaluated, <<leftPos, rightPos>>)
                /\ leftPos' = NextI
                /\ rightPos' = NextJ
                /\ dpc' = dpc
           ELSE /\ dpc' = "panic"
                /\ UNCHANGED <<best, evaluated, leftPos, rightPos>>
    /\ UNCHANGED <<addVars, parseVars, input, acc, idx, resultA, resultB>>

\* The product is exhausted and max() holds a value: it is returned.
PairsFinish ==
    /\ dpc = "b"
    /\ leftPos > Len(input)
    /\ best.some
    /\ resultB' = best
    /\ dpc' = "done"
    /\ UNCHANGED <<addVars, parseVars, input, acc, idx, resultA, leftPos, rightPos, best, evaluated>>

\* The product is exhausted and nothing passed the filter: max() is None and
\* .expect(..) aborts.
PairsEmpty ==
    /\ dpc = "b"
    /\ leftPos > Len(input)
    /\ ~best.some
    /\ dpc' = "panic"
    /\ UNCHANGED <<addVars, parseVars, input, acc, idx, resultA, leftPos, rightPos, best, evaluated, resultB>>

NextDriver ==
    \/ ReadInput
    \/ FoldFirst
    \/ FoldAdd
    \/ FoldFinish
    \/ FoldEmpty
    \/ PairSkip
    \/ PairEvaluate
    \/ PairsFinish
    \/ PairsEmpty

SpecDriver == Init /\ [][NextDriver]_vars

\* solution18b is called on a collection without solution18a before it.
CallB ==
    /\ dpc = "idle"
    /\ input' \in SeqsUpTo(InputNumbers, MaxInput)
    /\ dpc' = "b"
    /\ UNCHANGED <<addVars, parseVars, acc, idx, resultA, leftPos, rightPos, best, evaluated, resultB>>

\* Both strategies, each on every collection: solution18a followed by
\* solution18b as solution18 calls them, and solution18b on its own.
NextStrategies == NextDriver \/ CallB

SpecStrategies == Init /\ [][NextStrategies]_vars

(***************************************************************************)
(* parse_snailfish_number, parse_node, parse_pair, find_comma              *)
(***************************************************************************)
\* The decimal digits and their values.
DigitValue ==
    [c \in {"0", "1", "2", "3", "4", "5", "6", "7", "8", "9"} |->
        CASE c = "0" -> 0 [] c = "1" -> 1 [] c = "2" -> 2 [] c = "3" -> 3
          [] c = "4" -> 4 [] c = "5" -> 5 [] c = "6" -> 6 [] c = "7" -> 7
          [] c = "8" -> 8 [] c = "9" -> 9]

\* Value of a sequence of decimal digits, most significant first.
RECURSIVE DecimalValue(_)
DecimalValue(s) ==
    IF s = <<>> THEN 0
    ELSE DecimalValue(SubSeq(s, 1, Len(s) - 1)) * 10 + DigitValue[s[Len(s)]]

\* str::parse::<u32>: an optional "+" and then one or more decimal digits;
\* anything else is an Err.  The lines of the model have fewer than ten
\* characters, so the value always fits in a u32.
parse_u32(s) ==
    LET digits == IF s # <<>> /\ s[1] = "+" THEN Tail(s) ELSE s
    IN  IF digits = <<>> THEN None
        ELSE IF \E k \in 1..Len(digits) : digits[k] \notin DOMAIN DigitValue THEN None
        ELSE Some(DecimalValue(digits))

\* Variant of FindCommaFrom: the first comma is taken, whatever the nesting.
RECURSIVE FindCommaFromAnyDepth(_, _, _)
FindCommaFromAnyDepth(s, k, stack_count) ==
    IF k > Len(s) THEN None
    ELSE IF s[k] = "," THEN Some(k)
    ELSE FindCommaFromAnyDepth(s, k + 1, stack_count)

\* The loop of find_comma from the k-th character on, with stack_count open
\* brackets: Some(position) of the comma, None when it panics.
RECURSIVE FindCommaFrom(_, _, _)
FindCommaFrom(s, k, stack_count) ==
    IF k > Len(s) THEN None
    ELSE IF s[k] = "," /\ stack_count = 0 THEN Some(k)
    ELSE IF s[k] = "[" THEN FindCommaFrom(s, k + 1, stack_count + 1)
    ELSE IF s[k] = "]" /\ stack_count = 0 THEN None
    ELSE IF s[k] = "]" THEN FindCommaFrom(s, k + 1, stack_count - 1)
    ELSE FindCommaFrom(s, k + 1, stack_count)

\* find_comma(pair_ser); positions count from 1.
find_comma(pair_ser) == FindCommaFrom(pair_ser, 1, 0)

RECURSIVE parse_pair(_)

\* parse_node(node_ser): Some(node), or None when it panics.  The slice
\* [1..len-1] drops the first and the last character, whatever the last is.
parse_node(node_ser) ==
    IF node_ser = <<>> \/ node_ser[1] # "["
    THEN LET v == parse_u32(node_ser)
         IN  IF v.some THEN Some(Value(v.value)) ELSE None
    ELSE IF Len(node_ser) < 2 THEN None
    ELSE parse_pair(SubSeq(node_ser, 2, Len(node_ser) - 1))

\* parse_pair(pair_ser): Some(pair), or None when it panics.
parse_pair(pair_ser) ==
    LET comma_pos == find_comma(pair_ser)
    IN  IF ~comma_pos.some THEN None
        ELSE LET l == parse_node(SubSeq(pair_ser, 1, comma_pos.value - 1))
                 r == parse_node(SubSeq(pair_ser, comma_pos.value + 1, Len(pair_ser)))
             IN  IF l.some /\ r.some THEN Some(Pair(l.value, r.value)) ELSE None

\* parse_snailfish_number(num_ser).
parse_snailfish_number(num_ser) ==
    IF Len(num_ser) < 2 THEN None
    ELSE parse_pair(SubSeq(num_ser, 2, Len(num_ser) - 1))

\* Characters of the input lines of the model.
Alphabet == {"[", "]", ",", "1"}

\* The lines: an opening bracket, at most MaxBody characters, a closing bracket.
InputLines ==
    {<<"[">> \o body \o <<"]">> : body \in SeqsUpTo(Alphabet, MaxBody)}

\* read_string_lines yields a line.
ReadLine ==
    /\ ppc = "idle"
    /\ text' \in InputLines
    /\ ppc' = "read"
    /\ UNCHANGED <<addVars, driverVars, parsed, shown>>

\* .map(parse_snailfish_number) on that line.
ParseLine ==
    /\ ppc = "read"
    /\ parsed' = parse_snailfish_number(text)
    /\ ppc' = IF parsed'.some THEN "parsed" ELSE "panic"
    /\ UNCHANGED <<addVars, driverVars, text, shown>>

NextParse == ReadLine \/ ParseLine

SpecParse == Init /\ [][NextParse]_vars

\* The decimal digit of a value below ten.
DigitChar(d) == CHOOSE c \in DOMAIN DigitValue : DigitValue[c] = d

\* The decimal numeral of a non-negative integer, without leading zeros.
RECURSIVE Numeral(_)
Numeral(v) ==
    IF v < 10 THEN <<DigitChar(v)>>
    ELSE Numeral(v \div 10) \o <<DigitChar(v % 10)>>

\* The canonical text of a tree in the grammar
\* pair ::= "[" element "," element "]", element ::= pair | integer.
RECURSIVE CanonicalText(_)
CanonicalText(n) ==
    IF IsValue(n) THEN Numeral(n.value)
    ELSE <<"[">> \o CanonicalText(n.left) \o <<",">> \o CanonicalText(n.right)
             \o <<"]">>

\* Leaf values of the trees that are written out: one, two and three digits.
ShownLeafValues == {0, 7, 10, 123}

\* The trees that are written out: every Pair with at most MaxShownLeaves leaves.
ShownTrees ==
    UNION {TreesWithLeaves(n, ShownLeafValues) : n \in 2..MaxShownLeaves}

\* read_string_lines yields a line that is the canonical text of a tree.
ReadCanonicalLine ==
    /\ ppc = "idle"
    /\ \E t \in ShownTrees :
          /\ shown' = Some(t)
          /\ text' = CanonicalText(t)
    /\ ppc' = "read"
    /\ UNCHANGED <<addVars, driverVars, parsed>>

NextCanonical == ReadCanonicalLine \/ ParseLine

SpecCanonical == Init /\ [][NextCanonical]_vars

(***************************************************************************)
(* Reference definitions over the left-to-right leaf order                 *)
(***************************************************************************)
\* A path is a sequence of "left" / "right" child selections from the root.
RECURSIVE SubtreeAt(_, _)
SubtreeAt(t, path) ==
    IF path = <<>> THEN t
    ELSE IF Head(path) = "left" THEN SubtreeAt(t.left, Tail(path))
    ELSE SubtreeAt(t.right, Tail(path))

RECURSIVE ReplaceAt(_, _, _)
ReplaceAt(t, path, new) ==
    IF path = <<>> THEN new
    ELSE IF Head(path) = "left"
         THEN Pair(ReplaceAt(t.left, Tail(path), new), t.right)
         ELSE Pair(t.left, ReplaceAt(t.right, Tail(path), new))

\* Paths, in left-to-right order, of the Pairs that sit below exactly d edges.
RECURSIVE PairPathsAt(_, _, _)
PairPathsAt(t, d, prefix) ==
    IF IsValue(t) THEN <<>>
    ELSE IF d = 0 THEN <<prefix>>
    ELSE PairPathsAt(t.left, d - 1, Append(prefix, "left"))
         \o PairPathsAt(t.right, d - 1, Append(prefix, "right"))

\* Number of leaves strictly to the left of the subtree at path.
RECURSIVE LeavesBefore(_, _)
LeavesBefore(t, path) ==
    IF path = <<>> THEN 0
    ELSE IF Head(path) = "left" THEN LeavesBefore(t.left, Tail(path))
    ELSE Len(Leaves(t.left)) + LeavesBefore(t.right, Tail(path))

\* Path of the i-th leaf in left-to-right order.
RECURSIVE LeafPath(_, _)
LeafPath(t, i) ==
    IF IsValue(t) THEN <<>>
    ELSE LET n == Len(Leaves(t.left))
         IN  IF i <= n THEN <<"left">> \o LeafPath(t.left, i)
             ELSE <<"right">> \o LeafPath(t.right, i - n)

\* The tree of the given shape whose leaves are, left to right, lv.
RECURSIVE Fill(_, _)
Fill(shape, lv) ==
    IF IsValue(shape) THEN Value(lv[1])
    ELSE LET n == Len(Leaves(shape.left))
         IN  Pair(Fill(shape.left, SubSeq(lv, 1, n)),
                  Fill(shape.right, SubSeq(lv, n + 1, Len(lv))))

\* Paths of the Pairs nested inside exactly 4 Pairs, leftmost first.
ExplodeCandidates(t) == PairPathsAt(t, 4, <<>>)

\* The leftmost such Pair has two Value children.
LeftmostCandidateIsLeafPair(t) ==
    /\ ExplodeCandidates(t) # <<>>
    /\ LET sub == SubtreeAt(t, ExplodeCandidates(t)[1])
       IN  IsValue(sub.left) /\ IsValue(sub.right)

\* The tree the explode rule prescribes: the leftmost candidate becomes 0, its
\* left value goes to the leaf just before it and its right value to the leaf
\* just after it, where such a leaf exists.
ExplodeExpected(t) ==
    LET path == ExplodeCandidates(t)[1]
        sub == SubtreeAt(t, path)
        lv == Leaves(t)
        i == LeavesBefore(t, path)
        nv == [k \in 1..(Len(lv) - 1) |->
                 IF k < i THEN lv[k]
                 ELSE IF k = i THEN lv[i] + sub.left.value
                 ELSE IF k = i + 1 THEN 0
                 ELSE IF k = i + 2 THEN lv[i + 3] + sub.right.value
                 ELSE lv[k + 1]]
    IN  Fill(ReplaceAt(t, path, Value(0)), nv)

\* Index of the first leaf that is 10 or more, 0 when there is none.
FirstLargeLeaf(t) ==
    LET lv == Leaves(t)
        big == {k \in 1..Len(lv) : lv[k] >= 10}
    IN  IF big = {} THEN 0 ELSE CHOOSE k \in big : \A m \in big : k <= m

\* The tree the split rule prescribes.
SplitExpected(t) ==
    LET lv == Leaves(t)
        i == FirstLargeLeaf(t)
        half == lv[i] \div 2
        nv == SubSeq(lv, 1, i - 1) \o <<half, lv[i] - half>>
                  \o SubSeq(lv, i + 1, Len(lv))
    IN  IF i = 0 THEN t
        ELSE Fill(ReplaceAt(t, LeafPath(t, i), Pair(Value(0), Value(0))), nv)

\* Weight of a leaf in the magnitude: 3 per left edge and 2 per right edge.
RECURSIVE PathWeight(_)
PathWeight(path) ==
    IF path = <<>> THEN 1
    ELSE (IF Head(path) = "left" THEN 3 ELSE 2) * PathWeight(Tail(path))

RECURSIVE SumTo(_, _)
SumTo(f, n) == IF n = 0 THEN 0 ELSE f[n] + SumTo(f, n - 1)

WeightedLeafSum(t) ==
    LET lv == Leaves(t)
    IN  SumTo([k \in 1..Len(lv) |-> lv[k] * PathWeight(LeafPath(t, k))], Len(lv))

(***************************************************************************)
(* Properties                                                              *)
(***************************************************************************)
\* C1: when add_numbers returns, no Pair of the returned tree is nested inside
\* 4 or more Pairs and no leaf is 10 or more.
C1_ResultIsReduced ==
    pc = "done" => Nesting(combined) <= 4 /\ MaxLeaf(combined) < 10

\* add_numbers has returned a tree that it had to explode on the way.
C1_Witness ==
    /\ pc = "done"
    /\ Nesting(Pair(left, right)) > 4
    /\ combined # Pair(left, right)

\* C2: for reduced operands the explode / split loop terminates: eventually
\* neither try_explode_children(1) nor try_split_children reports a rewrite.
C2_Terminates ==
    (pc = "explode" /\ IsReduced(left) /\ IsReduced(right)) ~> (pc = "done")

\* The loop has ended after rewrites that changed the number of leaves.
C2_Witness ==
    /\ pc = "done"
    /\ IsReduced(left) /\ IsReduced(right)
    /\ Len(Leaves(combined)) # Len(Leaves(left)) + Len(Leaves(right))

\* C3: a split is performed only when no Pair is nested inside 4 or more
\* Pairs, and after every explode and every split the next rewrite attempted
\* is an explode.
C3_ExplodeHasPriority ==
    [][/\ (last' = "split" => Nesting(combined) <= 4)
       /\ (last' \in {"explode", "split"} => pc' = "explode")]_vars

\* A split has just produced a Pair nested inside 4 Pairs and the loop is back
\* at the explode attempt.
C3_Witness ==
    last = "split" /\ pc = "explode" /\ Nesting(combined) > 4

\* C4: one explode step on a tree whose leftmost Pair nested inside 4 Pairs
\* has two Value children yields the tree in which that Pair is 0, the leaf just
\* left of it has gained its left value and the leaf just right of it its right
\* value (a carry without such a leaf is dropped), all else unchanged.
Scenario4Tree ==
    Pair(Pair(Pair(Pair(LeafPair(9, 8), Value(1)), Value(2)), Value(3)), Value(4))
Scenario4Exploded ==
    Pair(Pair(Pair(LeafPair(0, 9), Value(2)), Value(3)), Value(4))

C4_ExplodeStep ==
    /\ try_explode_children(Scenario4Tree, 1).tree = Scenario4Exploded
    /\ [][(pc = "explode" /\ LeftmostCandidateIsLeafPair(combined))
            => (last' = "explode" /\ combined' = ExplodeExpected(combined))]_vars

\* An explode has just acted in the interior of the tree: the 0 it left has a
\* leaf on either side.
C4_Witness ==
    /\ last = "explode"
    /\ \E k \in 2..(Len(Leaves(combined)) - 1) :
          Leaves(combined)[k] = 0 /\ Leaves(combined)[k - 1] > 9

\* C5: one split step replaces the first leaf v >= 10 in left-to-right order
\* by the Pair (v div 2, v - v div 2) and changes nothing else; it returns
\* false and changes nothing when every leaf is below 10.
C5_SplitStep ==
    /\ split(Value(10)) = LeafPair(5, 5)
    /\ split(Value(11)) = LeafPair(5, 6)
    /\ split(Value(13)) = LeafPair(6, 7)
    /\ [][pc = "split"
            => /\ combined' = SplitExpected(combined)
               /\ (last' = "split") = (FirstLargeLeaf(combined) # 0)
               /\ (FirstLargeLeaf(combined) = 0 => pc' = "done")]_vars

\* A split has just acted on an odd value while a later leaf is still 10 or
\* more.
C5_Witness ==
    /\ last = "split"
    /\ \E k \in 1..(Len(Leaves(combined)) - 2) :
          /\ Leaves(combined)[k + 1] = Leaves(combined)[k] + 1
          /\ \E m \in (k + 2)..Len(Leaves(combined)) : Leaves(combined)[m] >= 10

\* C6: add_numbers([[[[4,3],4],4],[7,[[8,4],9]]], [1,1]) returns
\* [[[[0,7],4],[[7,8],[6,0]]],[8,1]].
C6_Scenario1 ==
    (pc = "done" /\ left = Scenario1Left /\ right = Scenario1Right)
        => combined = Scenario1Sum

C6_Witness ==
    pc = "done" /\ left = Scenario1Left /\ right = Scenario1Right

\* C7: magnitude is the fold with weight 3 on the left and 2 on the right:
\* a Value is its value, a Pair is 3 * left + 2 * right, so every leaf counts
\* with 3 per left edge and 2 per right edge above it; the two examples give
\* 143 and 445.
Scenario2Tree ==
    Pair(LeafPair(1, 2), Pair(LeafPair(3, 4), Value(5)))
Scenario3Tree ==
    Pair(Pair(Pair(LeafPair(1, 1), LeafPair(2, 2)), LeafPair(3, 3)), LeafPair(4, 4))

C7_Magnitude ==
    /\ magnitude(Scenario2Tree) = 143
    /\ magnitude(Scenario3Tree) = 445
    /\ magnitude(NoTree) = 0
    /\ pc # "idle" =>
          /\ magnitude(combined) =
                 3 * magnitude(combined.left) + 2 * magnitude(combined.right)
          /\ magnitude(combined) = WeightedLeafSum(combined)

\* The magnitude of the sum of scenario 1 has been taken.
C7_Witness ==
    combined = Scenario1Sum /\ magnitude(combined) = 1384

\* Largest element of a non-empty finite set of numbers.
MaxOf(S) == CHOOSE m \in S : \A n \in S : n <= m

\* The ordered pairs of distinct positions of the input.
DistinctPositions ==
    {ab \in (1..Len(input)) \X (1..Len(input)) : ab[1] # ab[2]}

\* C8: on n >= 2 numbers solution18b evaluates exactly the n * (n - 1) ordered
\* pairs of distinct positions, both orders of each and also positions that hold
\* equal numbers, and returns the largest magnitude of their sums; for n = 2
\* that is 2 candidates.
C8_MaxPairwise ==
    (dpc = "done" /\ Len(input) >= 2) =>
        /\ Len(evaluated) = Len(input) * (Len(input) - 1)
        /\ {evaluated[k] : k \in 1..Len(evaluated)} = DistinctPositions
        /\ (Len(input) = 2 => Len(evaluated) = 2)
        /\ resultB.some
        /\ resultB.value =
              MaxOf({magnitude(add_numbers(input[ab[1]], input[ab[2]]).value)
                        : ab \in DistinctPositions})

\* solution18b has returned for an input in which two positions hold the same
\* number and the order of some pair matters.
C8_Witness ==
    /\ dpc = "done"
    /\ Len(input) = 3
    /\ input[1] = input[3]
    /\ magnitude(add_numbers(input[1], input[2]).value)
          # magnitude(add_numbers(input[2], input[1]).value)

\* The left fold of add_numbers over a non-empty sequence of numbers.
RECURSIVE LeftFold(_)
LeftFold(xs) ==
    IF Len(xs) = 1 THEN xs[1]
    ELSE add_numbers(LeftFold(SubSeq(xs, 1, Len(xs) - 1)), xs[Len(xs)]).value

\* C9: on a non-empty input x1..xn solution18a returns the magnitude of
\* add_numbers(..add_numbers(add_numbers(x1, x2), x3).., xn), the input taken in
\* order; for n = 1 that is the magnitude of x1.
C9_SumAll ==
    (resultA.some /\ Len(input) >= 1) =>
        /\ resultA.value = magnitude(LeftFold(input))
        /\ (Len(input) = 1 => resultA.value = magnitude(input[1]))

\* solution18a has returned for three numbers whose sum depends on the order.
C9_Witness ==
    /\ resultA.some
    /\ Len(input) = 3
    /\ resultA.value # magnitude(LeftFold(<<input[3], input[2], input[1]>>))
    /\ resultA.value # magnitude(LeftFold(<<input[2], input[1], input[3]>>))

\* Decimal integers of the grammar over the digits of Alphabet, at most n long.
GrammarIntegers(n) ==
    UNION {[1..k -> Alphabet \cap DOMAIN DigitValue] : k \in 1..n}

\* element ::= pair | integer, at most n characters long.
RECURSIVE GrammarElements(_)
GrammarElements(n) ==
    IF n <= 0 THEN {}
    ELSE GrammarIntegers(n)
         \cup {<<"[">> \o ab[1] \o <<",">> \o ab[2] \o <<"]">>
                 : ab \in {cd \in GrammarElements(n - 4) \X GrammarElements(n - 4)
                               : Len(cd[1]) + Len(cd[2]) + 3 <= n}}

\* number ::= pair, for the lines of the model.
GrammarNumbers == {e \in GrammarElements(MaxBody + 2) : e[1] = "["}

\* C10: for a line that begins with "[" and ends with "]" and is not a pair of
\* the grammar (unmatched brackets, no comma at depth zero, malformed integer),
\* parse_snailfish_number aborts and returns no tree.
C10_MalformedLineIsRejected ==
    (ppc \in {"parsed", "panic"} /\ text \notin GrammarNumbers) => ~parsed.some

\* C11: parsing is a left inverse of the canonical printer: for every tree
\* whose root is a Pair, parse_snailfish_number applied to its canonical text
\* returns a tree of the same shape with the same leaf values.
C11_ParseInvertsPrint ==
    (ppc \in {"parsed", "panic"} /\ shown.some) =>
        (parsed.some /\ parsed.value = shown.value)

\* A line with a nested left element and a leaf of several digits was parsed.
C11_Witness ==
    /\ ppc = "parsed"
    /\ shown.some
    /\ IsPair(shown.value.left)
    /\ MaxLeaf(shown.value) = 123

\* The trees of a state that are reduced: the operands, and the tree add_numbers
\* has just returned.
ReducedTreesOfState ==
    IF pc = "idle" THEN {}
    ELSE {t \in {left, right} : IsReduced(t)}
            \cup (IF pc = "done" THEN {combined} ELSE {})

\* C12: reduction is idempotent: on an already reduced tree, such as the tree
\* add_numbers has just returned, the loop performs zero rewrites:
\* try_explode_children(1) and try_split_children both report nothing and leave
\* the tree unchanged.
C12_ReductionIsIdempotent ==
    \A t \in ReducedTreesOfState :
        LET e == try_explode_children(t, 1)
            s == try_split_children(t)
        IN  /\ ~e.exploded /\ ~e.panicked /\ ~e.carry_value.some /\ e.tree = t
            /\ ~s.split /\ s.tree = t
            /\ LoopStep(t) = LoopState(t, FALSE, FALSE)

\* add_numbers has returned a tree of full depth that differs from the bare
\* combination of its operands, and both operands are of full depth too.
C12_Witness ==
    /\ pc = "done"
    /\ combined # Pair(left, right)
    /\ Nesting(combined) = 4
    /\ Nesting(left) = 4

\* C13: collections that are too small are fatal: solution18a aborts on an empty
\* collection, solution18b aborts on a collection of fewer than two elements
\* (0 or 1), and neither returns a number: when the iteration of such a
\* collection is exhausted the next step is the abort.
C13_TooSmallIsFatal ==
    [][ /\ (Len(input') = 0 => ~resultA'.some)
        /\ (Len(input') < 2 => (~resultB'.some /\ dpc' # "done"))
        /\ ((dpc = "a" /\ Len(input) = 0) => dpc' = "panic")
        /\ ((dpc = "b" /\ Len(input) < 2 /\ leftPos > Len(input))
                => dpc' = "panic")
      ]_vars

\* solution18b has aborted on a collection of one element after solution18a
\* returned its magnitude.
C13_Witness ==
    /\ dpc = "panic"
    /\ Len(input) = 1
    /\ resultA.some
    /\ ~resultB.some

\* Some Pair nested inside 4 Pairs has a Pair as a child.
HasDeepPair(t) ==
    \E k \in 1..Len(ExplodeCandidates(t)) :
        LET sub == SubtreeAt(t, ExplodeCandidates(t)[k])
        IN  IsPair(sub.left) \/ IsPair(sub.right)

\* C14: when the combined tree contains a Pair nested inside 4 Pairs that has a
\* Pair as a child, add_numbers never returns a tree: the loop keeps exploding,
\* the deep Pair stays in the tree and no split is tried, until force_as_value
\* on a Pair aborts the call.
C14_UnreducedOperandIsFatal ==
    (pc # "idle" /\ HasDeepPair(Pair(left, right))) =>
        /\ pc \in {"explode", "panic"}
        /\ HasDeepPair(combined)
        /\ LoopRun(MaxLoopLog, LoopState(Pair(left, right), TRUE, FALSE)).panicked
        /\ ~add_numbers(left, right).some

\* The call has aborted after it exploded Pairs to the left of the deep one.
C14_Witness ==
    /\ pc = "panic"
    /\ HasDeepPair(Pair(left, right))
    /\ combined # Pair(left, right)

\* Every Pair nested inside 4 Pairs has two Value children.
DeepestPairsAreLeafPairs(t) ==
    \A k \in 1..Len(ExplodeCandidates(t)) :
        LET sub == SubtreeAt(t, ExplodeCandidates(t)[k])
        IN  IsValue(sub.left) /\ IsValue(sub.right)

\* C15: when both operands are reduced, in every state of the loop every Pair
\* nested inside 4 Pairs has two Value children (no Pair is nested inside 5 or
\* more), so force_as_value is never applied to a Pair and the abort is
\* unreachable.
C15_NoAbortOnReducedOperands ==
    (pc # "idle" /\ IsReduced(left) /\ IsReduced(right)) =>
        /\ DeepestPairsAreLeafPairs(combined)
        /\ Nesting(combined) <= 5
        /\ ~try_explode_children(combined, 1).panicked
        /\ pc # "panic"

\* An explosion has just run and left Pairs nested inside 4 Pairs on both
\* sides of the root.
C15_Witness ==
    /\ last = "explode"
    /\ Nesting(combined.left) = 4
    /\ Nesting(combined.right) = 4

\* The tree with every leaf value replaced by 0.
RECURSIVE Shape(_)
Shape(t) == IF IsValue(t) THEN Value(0) ELSE Pair(Shape(t.left), Shape(t.right))

\* Number of Pairs of a tree.
RECURSIVE PairCount(_)
PairCount(t) == IF IsValue(t) THEN 0 ELSE 1 + PairCount(t.left) + PairCount(t.right)

\* C16: one call of try_explode_children(1) explodes at most one Pair, and always
\* the leftmost Pair nested inside exactly 4 Pairs: that Pair becomes the
\* Value 0 and every other Pair, those nested inside 3 Pairs or fewer included,
\* stays where it is; when no Pair is nested inside 4 Pairs the call returns
\* exploded = false with no carry and leaves the tree unchanged.
C16_ExplodesLeftmostOnly ==
    [][pc = "explode" =>
        LET r == try_explode_children(combined, 1)
            c == ExplodeCandidates(combined)
        IN  IF c = <<>>
            THEN /\ ~r.exploded /\ ~r.carry_value.some /\ r.tree = combined
                 /\ combined' = combined
                 /\ last' = "none"
            ELSE /\ r.exploded
                 /\ last' = "explode"
                 /\ SubtreeAt(combined', c[1]) = Value(0)
                 /\ Shape(combined') = Shape(ReplaceAt(combined, c[1], Value(0)))
                 /\ PairCount(combined') = PairCount(combined) - 1
                 /\ PairPathsAt(combined', 3, <<>>) = PairPathsAt(combined, 3, <<>>)
      ]_vars

\* One explosion has run and at least two Pairs nested inside 4 Pairs are left
\* for the next calls.
C16_Witness ==
    /\ last = "explode"
    /\ pc = "explode"
    /\ Len(ExplodeCandidates(combined)) >= 2

\* The largest magnitude of the sums of two numbers at distinct positions of a
\* collection, each sum computed from the collection as it was read.
PairwiseBest(numbers) ==
    MaxOf({magnitude(add_numbers(numbers[a], numbers[b]).value)
              : <<a, b>> \in {ab \in (1..Len(numbers)) \X (1..Len(numbers))
                                  : ab[1] # ab[2]}})

\* C17: both strategies leave the input collection unchanged: they work on
\* clones, so no step of solution18a or of a candidate evaluation of
\* solution18b modifies an element, and the result of solution18b is the same
\* function of the collection as read whether solution18a ran before it or not.
C17_InputIsUnchanged ==
    [][ /\ (dpc # "idle" => input' = input)
        /\ (dpc' = "done" => resultB' = Some(PairwiseBest(input')))
      ]_vars

\* solution18b has returned on a collection on which solution18a was not run.
C17_Witness ==
    /\ dpc = "done"
    /\ ~resultA.some
    /\ resultB.some
    /\ Len(input) >= 2

\* solution18b has returned after solution18a folded the same collection.
C17_WitnessAfterFold ==
    /\ dpc = "done"
    /\ resultA.some
    /\ resultB.some
    /\ Len(input) = 3
    /\ idx = 4

\* Total of the leaf values of a tree.
LeafSum(t) == SumTo(Leaves(t), Len(Leaves(t)))

\* What the explosion of the leftmost candidate drops: its left value when no
\* leaf is to its left, its right value when no leaf is to its right.
DroppedByExplode(t) ==
    LET path == ExplodeCandidates(t)[1]
        sub == SubtreeAt(t, path)
        i == LeavesBefore(t, path)
    IN  (IF i = 0 THEN sub.left.value ELSE 0)
          + (IF i + 2 = Len(Leaves(t)) THEN sub.right.value ELSE 0)

\* C18: the total of the leaf values never increases during a reduction: a
\* split leaves it unchanged, an explosion leaves it unchanged or lowers it by
\* exactly the carries dropped at the two edges of the tree, and so the leaves
\* of add_numbers(a, b) total at most the leaves of a plus the leaves of b.
C18_LeafSumNeverIncreases ==
    [][ /\ (last' = "split" => LeafSum(combined') = LeafSum(combined))
        /\ (last' = "explode" =>
                LeafSum(combined') = LeafSum(combined) - DroppedByExplode(combined))
        /\ (pc' # "idle" =>
                LeafSum(combined') <= LeafSum(left') + LeafSum(right'))
        /\ (pc # "idle" => LeafSum(combined') <= LeafSum(combined))
      ]_vars

\* add_numbers has returned a tree whose leaves total less than those of the
\* operands: some explosion dropped a carry at an edge.
C18_Witness ==
    /\ pc = "done"
    /\ LeafSum(combined) < LeafSum(left) + LeafSum(right)
    /\ LeafSum(combined) > 0
    /\ MaxLeaf(combined) = 9

\* C19: the magnitude of every reduced tree (at most 4 levels of nesting, leaves
\* at most 9) is at most 9 * 5^4 = 5625, far below 2^32, so the u32 arithmetic
\* of the magnitude of a tree add_numbers returned cannot overflow.
C19_MagnitudeIsBounded ==
    /\ 9 * 5 * 5 * 5 * 5 = 5625
    /\ \A t \in ReducedTreesOfState :
           /\ magnitude(t) <= 5625
           /\ magnitude(t.left) * 3 <= 5625
           /\ magnitude(t.right) * 2 <= 5625

\* add_numbers has returned the complete tree of 16 leaves 9, whose magnitude
\* is the bound itself.
C19_Witness ==
    /\ pc = "done"
    /\ combined = CompleteTree(4, 9)
    /\ magnitude(combined) = 5625

====
